---- MODULE Spec2Model ----
(***************************************************************************)
(* Real-time polling backend: the vote route (routes/votes.js), the poll   *)
(* and option routes that change what a vote refers to (routes/polls.js,   *)
(* routes/pollOptions.js), the Poll model's derived state (models/Poll.js),*)
(* the vote rate limiter (middleware/rateLimit.js) and the WebSocket       *)
(* registry and broadcast of server.js.                                    *)
(*                                                                         *)
(* Every `await` of a handler is a point where other handlers may run, so  *)
(* each handler is a sequence of actions, one per await.                   *)
(***************************************************************************)
EXTENDS Integers, Sequences, FiniteSets, TLC

VARIABLES
    now,        \* wall clock, milliseconds (Date.now())
    polls,      \* Poll collection: poll id -> document
    options,    \* PollOption collection: set of [id, poll]
    votes,      \* Vote collection: set of [id, user, poll, pollOption]
    hits,       \* CustomStore.hits of the vote limiter: key -> [count, resetTime]
    reqs,       \* in-flight POST /api/votes requests
    put,        \* in-flight PUT /api/polls/:id request
    delOpt,     \* in-flight DELETE /api/options/:id request
    delPoll,    \* in-flight DELETE /api/polls/:id request
    freshOpts,  \* number of option ids handed out by insertMany so far
    clients,    \* wss.clients: connection -> [state, pollId, inbox]
    last,       \* the latest broadcastToPoll call: its argument and result
    event,      \* the latest WebSocket event the server handled
    life,       \* in-flight PATCH /api/polls/:id/{publish,unpublish,archive,extend}
    sweep,      \* the run of Poll.cleanupExpiredPolls
    edit,       \* option texts and the in-flight PUT /api/options/:id request
    svc,        \* the client's WebSocketService
    stats,      \* the latest result of the percentage and status computations
    rl          \* the latest answer of the vote limiter

vars == <<now, polls, options, votes, hits, reqs, put, delOpt, delPoll,
          freshOpts, clients, last, event, life, sweep, edit, svc, stats, rl>>

dbVars == <<polls, options, votes>>

(***************************************************************************)
(* Bounds of the model.                                                    *)
(***************************************************************************)
NumReqs == 2          \* concurrent POST /api/votes requests
MaxTicks == 2         \* clock ticks after the initial instant
MaxOptionPuts == 1    \* PUT /api/polls/:id requests that replace the options
MaxMutations == 1     \* PUT / DELETE requests on polls and options
MaxSubmits == 1       \* vote requests received one after the other
MaxInbox == 1         \* frames a connection holds before the client reads them
TickMs == 1000        \* milliseconds the clock advances in one step
NumLife == 2          \* publish/unpublish/archive/extend requests in flight
MaxWindows == 1       \* limiter windows that elapse after the initial instant
MaxCount == 5         \* votes of one option in a stats request
MaxConnects == 2      \* calls of WebSocketService.connect
MaxSockets == 6       \* WebSocket objects the client creates

(***************************************************************************)
(* Identifiers.  An ObjectId in a request is a string; it is modelled as   *)
(* the sequence of its characters.                                         *)
(***************************************************************************)
ObjectIdHexLen == 24

Rep(c, n) == [i \in 1..n |-> c]

HexChars == {"0","1","2","3","4","5","6","7","8","9",
             "a","b","c","d","e","f","A","B","C","D","E","F"}

\* mongoose.Types.ObjectId.isValid on a string: 24 hexadecimal characters.
IsValidObjectId(id) ==
    /\ Len(id) = ObjectIdHexLen
    /\ \A i \in 1..Len(id) : id[i] \in HexChars

P1 == Rep("a", ObjectIdHexLen)
P2 == Rep("b", ObjectIdHexLen)
P3 == Rep("c", ObjectIdHexLen)      \* well-formed, never stored
BadId == <<"x", "y", "z">>          \* not an ObjectId
PollIds == {P1, P2}
RawPollIds == {P1, P2, P3, BadId}

O1 == Rep("1", ObjectIdHexLen)
O2 == Rep("2", ObjectIdHexLen)
O3 == Rep("3", ObjectIdHexLen)
O9 == Rep("9", ObjectIdHexLen)      \* well-formed, never stored
Digits == <<"0", "1", "2", "3", "4", "5", "6", "7", "8", "9">>
\* the i-th _id generated for an inserted option
NewOptionId(i) ==
    [k \in 1..ObjectIdHexLen |-> IF k = ObjectIdHexLen THEN Digits[i] ELSE "f"]

Users == {"u1", "u2"}
Creator == "u1"

T0 == TickMs             \* Date.now() in the initial state
ExpiryT == 2 * TickMs    \* expiresAt of the poll that expires
NoExpiry == 0      \* expiresAt: null

Reqs == 1..NumReqs

(***************************************************************************)
(* models/Poll.js: derived state.                                          *)
(***************************************************************************)
isExpired(p, t) == p.expiresAt # NoExpiry /\ t > p.expiresAt

status(p, t) ==
    IF ~p.isPublished THEN "draft"
    ELSE IF p.expiresAt # NoExpiry /\ t > p.expiresAt THEN "expired"
    ELSE "active"

canVote(p, t) ==
    IF ~p.isPublished THEN FALSE
    ELSE IF isExpired(p, t) THEN p.allowVotingAfterExpiry
    ELSE TRUE

canViewResults(p, t) ==
    IF isExpired(p, t) THEN p.showResultsAfterExpiry ELSE TRUE

\* pollSchema.pre('save'): a document whose expiresAt is not in the future
\* cannot be saved.
preSaveOk(p, t) == ~(p.expiresAt # NoExpiry /\ p.expiresAt <= t)

NoPoll == [exists |-> FALSE, isPublished |-> FALSE, creator |-> "",
           expiresAt |-> NoExpiry, allowVotingAfterExpiry |-> FALSE,
           showResultsAfterExpiry |-> TRUE, autoArchive |-> FALSE]

PollDoc(pub, exp, allow) ==
    [exists |-> TRUE, isPublished |-> pub, creator |-> Creator,
     expiresAt |-> exp, allowVotingAfterExpiry |-> allow,
     showResultsAfterExpiry |-> TRUE, autoArchive |-> FALSE]

\* Poll.findById
findPollById(id) == IF id \in PollIds THEN polls[id] ELSE NoPoll

(***************************************************************************)
(* HTTP responses: status and the `error` field of the body ("" on 2xx).   *)
(***************************************************************************)
Res(st, err) == [status |-> st, error |-> err]
NoRes == Res(0, "")

ErrPollNotFound == "Poll not found"
ErrUnpublished == "Cannot vote on an unpublished poll"
ErrExpired == "This poll has expired"
ErrBadOption == "Invalid poll option or option does not belong to this poll"
ErrAlreadyVoted == "You have already voted on this poll"
ErrValidation == "Validation failed"
ErrRateLimit == "Vote rate limit exceeded"
ErrDuplicateKey == "E11000 duplicate key error"
ErrDb == "database error"

(***************************************************************************)
(* middleware/rateLimit.js: the vote limiter and its CustomStore.          *)
(***************************************************************************)
VoteWindowSec == 60
VoteMax == 5

NoHits == [present |-> FALSE, count |-> 0, resetTime |-> 0]

\* keyGenerator: `vote:${userId}:${pollId}`
voteKey(user, poll) == <<user, poll>>

\* CustomStore.increment
increment(h, t) ==
    LET nowS == t \div 1000
        current == IF h.present THEN h
                   ELSE [present |-> TRUE, count |-> 0,
                         resetTime |-> nowS + VoteWindowSec]
    IN  IF nowS > current.resetTime
        THEN [present |-> TRUE, count |-> 1, resetTime |-> nowS + VoteWindowSec]
        ELSE [current EXCEPT !.count = @ + 1]

(***************************************************************************)
(* server.js: broadcastToPoll.                                             *)
(***************************************************************************)
Conns == {"c1", "c2", "c3"}
NoSub == << >>                       \* ws.pollId === null / undefined

NoCloseCode == 0                     \* no close code given by the server

\* a connection: readyState, ws.pollId, ws.userId ("" when not set),
\* ws.isAlive, the code of the server's ws.close call, the frames sent to
\* the client and not yet read, and whether a heartbeat ping is unanswered
NoClient == [state |-> "none", pollId |-> NoSub, userId |-> "",
             isAlive |-> TRUE, closeCode |-> NoCloseCode, inbox |-> << >>,
             pinged |-> FALSE]

\* every open connection, whatever it is subscribed to
subscribersAnyPoll(pollId) ==
    {c \in Conns : clients[c].state = "open"}

\* the connections broadcastToPoll selects
subscribers(pollId) ==
    {c \in Conns : clients[c].state = "open" /\ clients[c].pollId = pollId}

\* broadcastToPoll without the try around client.send: the first send that
\* throws ends the call
recipientsAbortOnFailure(pollId, failing) ==
    IF ~IsValidObjectId(pollId) THEN {}
    ELSE IF subscribers(pollId) \cap failing # {} THEN {}
    ELSE subscribers(pollId)

\* the connections the payload is delivered to: those selected whose send
\* does not throw (failing is the set of connections whose send throws)
recipients(pollId, failing) ==
    IF ~IsValidObjectId(pollId) THEN {}
    ELSE subscribers(pollId) \ failing

\* wss.clients after broadcastToPoll(pollId, data): client.send(data) puts
\* the frame on the connection
broadcastToPoll(pollId, data, failing) ==
    [c \in Conns |->
        IF c \in recipients(pollId, failing)
        THEN [clients[c] EXCEPT !.inbox = Append(@, data)]
        ELSE clients[c]]

\* its return value
recipientCount(pollId, failing) == Cardinality(recipients(pollId, failing))

\* what is recorded of a call: its arguments, the connections whose send
\* threw, and the value returned
Call(pollId, failing) ==
    [called |-> TRUE, pollId |-> pollId, failing |-> failing,
     count |-> recipientCount(pollId, failing)]

NoCall == [called |-> FALSE, pollId |-> NoSub, failing |-> {}, count |-> 0]

(***************************************************************************)
(* routes/votes.js: POST /api/votes                                        *)
(***************************************************************************)
\* A request: the handler's position and locals, the response, and what
\* the request has met and done so far (couldVote, sawExpired: the values
\* of pollDoc.canVote and pollDoc.isExpired when the handler read the poll;
\* stored: vote.save committed; seq: the position of that commit among all
\* commits; bcasts: calls of broadcastToPoll).
NoReq == [pc |-> "idle", user |-> "", poll |-> << >>, pollOption |-> << >>,
          pollDoc |-> NoPoll, votes |-> {}, res |-> NoRes,
          couldVote |-> "unchecked", sawExpired |-> FALSE, stored |-> FALSE,
          seq |-> 0, bcasts |-> 0]

VoteInputs ==
    {[user |-> u, poll |-> P1, pollOption |-> o] : u \in Users, o \in {O1, O2}}
    \cup {[user |-> "u1", poll |-> P1, pollOption |-> O3],
          [user |-> "u1", poll |-> P1, pollOption |-> O9],
          [user |-> "u1", poll |-> P3, pollOption |-> O1],
          [user |-> "u1", poll |-> BadId, pollOption |-> O1],
          [user |-> "u2", poll |-> P2, pollOption |-> O3]}

\* res.status(..).json(..): the handler ends and its locals are dropped
reply(r, res) ==
    [reqs EXCEPT ![r].pc = "done", ![r].res = res,
                 ![r].pollDoc = NoPoll, ![r].votes = {}]

\* auth, voteLimiter, voteValidation, handleValidationErrors, then the
\* handler up to its first await (Poll.findById).
Submit(r, in) ==
    /\ reqs[r].pc = "idle"
    /\ \A q \in Reqs : q < r => reqs[q].pc # "idle"
    /\ LET key == voteKey(in.user, in.poll)
           h == increment(hits[key], now)
           started == [reqs[r] EXCEPT !.user = in.user, !.poll = in.poll,
                                      !.pollOption = in.pollOption]
       IN  /\ hits' = [hits EXCEPT ![key] = h]
           /\ reqs' = [reqs EXCEPT ![r] =
                 IF h.count > VoteMax
                 THEN [started EXCEPT !.pc = "done",
                                      !.res = Res(429, ErrRateLimit)]
                 ELSE IF ~IsValidObjectId(in.poll) \/ ~IsValidObjectId(in.pollOption)
                 THEN [started EXCEPT !.pc = "done",
                                      !.res = Res(400, ErrValidation)]
                 ELSE [started EXCEPT !.pc = "findPoll"]]
    /\ UNCHANGED <<now, polls, options, votes, put, delOpt, delPoll,
                   freshOpts, clients, last,
                   event, life, sweep,
                   edit, svc, stats, rl>>

\* gating without the allowVotingAfterExpiry override: every expired poll
\* rejects
gatingNoOverride(pollDoc, t) ==
    IF ~pollDoc.exists THEN Res(404, ErrPollNotFound)
    ELSE IF ~pollDoc.isPublished THEN Res(400, ErrUnpublished)
    ELSE IF isExpired(pollDoc, t) THEN Res(400, ErrExpired)
    ELSE NoRes

\* The checks on the poll document: the response that ends the request,
\* or NoRes when the handler goes on.
gating(pollDoc, t) ==
    IF ~pollDoc.exists THEN Res(404, ErrPollNotFound)
    ELSE IF ~pollDoc.isPublished THEN Res(400, ErrUnpublished)
    ELSE IF isExpired(pollDoc, t) /\ ~pollDoc.allowVotingAfterExpiry
    THEN Res(400, ErrExpired)
    ELSE NoRes

\* const pollDoc = await Poll.findById(poll), the gating checks, and the
\* start of PollOption.findOne
FindPoll(r) ==
    /\ reqs[r].pc = "findPoll"
    /\ LET pollDoc == findPollById(reqs[r].poll)
           couldVote == IF ~pollDoc.exists THEN "unchecked"
                        ELSE IF canVote(pollDoc, now) THEN "yes" ELSE "no"
           sawExpired == pollDoc.exists /\ isExpired(pollDoc, now)
           res == gating(pollDoc, now)
       IN  reqs' =
              IF res # NoRes
              THEN [reply(r, res) EXCEPT ![r].couldVote = couldVote,
                                         ![r].sawExpired = sawExpired]
              ELSE [reqs EXCEPT ![r].pc = "findOption", ![r].pollDoc = pollDoc,
                                ![r].couldVote = couldVote,
                                ![r].sawExpired = sawExpired]
    /\ UNCHANGED <<now, polls, options, votes, hits, put, delOpt, delPoll,
                   freshOpts, clients, last,
                   event, life, sweep,
                   edit, svc, stats, rl>>

\* findOption by _id alone, as PollOption.findById(pollOption) would
findOptionById(pollOption, poll) ==
    \E o \in options : o.id = pollOption

\* PollOption.findOne({ _id: pollOption, poll: poll }) finds a document
findOption(pollOption, poll) ==
    \E o \in options : o.id = pollOption /\ o.poll = poll

\* const optionDoc = await PollOption.findOne(..)
FindOption(r) ==
    /\ reqs[r].pc = "findOption"
    /\ reqs' = IF ~findOption(reqs[r].pollOption, reqs[r].poll)
               THEN reply(r, Res(400, ErrBadOption))
               ELSE [reqs EXCEPT ![r].pc = "findVote"]
    /\ UNCHANGED <<now, polls, options, votes, hits, put, delOpt, delPoll,
                   freshOpts, clients, last,
                   event, life, sweep,
                   edit, svc, stats, rl>>

\* const existingVote = await Vote.findOne({ user, poll })
FindVote(r) ==
    /\ reqs[r].pc = "findVote"
    /\ LET existingVote == \E v \in votes :
                              v.user = reqs[r].user /\ v.poll = reqs[r].poll
       IN  reqs' = IF existingVote THEN reply(r, Res(400, ErrAlreadyVoted))
                   ELSE [reqs EXCEPT ![r].pc = "save"]
    /\ UNCHANGED <<now, polls, options, votes, hits, put, delOpt, delPoll,
                   freshOpts, clients, last,
                   event, life, sweep,
                   edit, svc, stats, rl>>

\* The Vote collection's unique index on (user, poll): the insert is
\* refused when a vote of the same user on the same poll is stored.
duplicateKey(user, poll) ==
    \E v \in votes : v.user = user /\ v.poll = poll

\* the number of vote.save() calls that have committed
commits == Cardinality({q \in Reqs : reqs[q].stored})

\* await vote.save(); a refused insert throws into the handler's catch
Save(r) ==
    /\ reqs[r].pc = "save"
    /\ IF duplicateKey(reqs[r].user, reqs[r].poll)
       THEN /\ reqs' = reply(r, Res(400, ErrDuplicateKey))
            /\ votes' = votes
       ELSE /\ votes' = votes \cup {[id |-> r, user |-> reqs[r].user,
                                     poll |-> reqs[r].poll,
                                     pollOption |-> reqs[r].pollOption]}
            /\ reqs' = [reqs EXCEPT ![r].pc = "findVotes", ![r].stored = TRUE,
                                    ![r].seq = commits + 1]
    /\ UNCHANGED <<now, polls, options, hits, put, delOpt, delPoll,
                   freshOpts, clients, last,
                   event, life, sweep,
                   edit, svc, stats, rl>>

\* const votes = await Vote.find({ poll })
FindVotes(r) ==
    /\ reqs[r].pc = "findVotes"
    /\ reqs' = [reqs EXCEPT ![r].pc = "findOptions",
                            ![r].votes = {v \in votes : v.poll = reqs[r].poll}]
    /\ UNCHANGED <<now, polls, options, votes, hits, put, delOpt, delPoll,
                   freshOpts, clients, last,
                   event, life, sweep,
                   edit, svc, stats, rl>>

\* voteCounts[option._id] = votes.filter(v => v.pollOption == option._id).length
voteCounts(opts, vs) ==
    [o \in {x.id : x \in opts} |->
        Cardinality({v \in vs : v.pollOption = o})]

\* the vote_update frame (by: the request that sent it, not on the wire)
broadcastData(r, opts) ==
    [type |-> "vote_update", by |-> r, pollId |-> reqs[r].poll,
     voteCounts |-> voteCounts(opts, reqs[r].votes),
     totalVotes |-> Cardinality(reqs[r].votes),
     isExpired |-> isExpired(reqs[r].pollDoc, now)]

\* const options = await PollOption.find({ poll }), the tally, the
\* broadcast and the 201 response
FindOptions(r, failing) ==
    /\ reqs[r].pc = "findOptions"
    /\ LET opts == {o \in options : o.poll = reqs[r].poll}
       IN  /\ clients' = broadcastToPoll(reqs[r].poll, broadcastData(r, opts),
                                         failing)
           /\ last' = Call(reqs[r].poll, failing)
           /\ reqs' = [reply(r, Res(201, "")) EXCEPT ![r].bcasts = @ + 1]
    /\ UNCHANGED <<now, polls, options, votes, hits, put, delOpt, delPoll,
                   freshOpts,
                   event, life, sweep,
                   edit, svc, stats, rl>>

\* A rejected database call at any await of the handler throws into
\* catch (error) { res.status(400).json({ error: error.message }) }
AwaitPcs == {"findPoll", "findOption", "findVote", "save", "findVotes",
             "findOptions"}

DbError(r) ==
    /\ reqs[r].pc \in AwaitPcs
    /\ reqs' = reply(r, Res(400, ErrDb))
    /\ UNCHANGED <<now, polls, options, votes, hits, put, delOpt, delPoll,
                   freshOpts, clients, last,
                   event, life, sweep,
                   edit, svc, stats, rl>>

\* The response has been sent: the request is over.
Forget(r) ==
    /\ reqs[r].pc = "done"
    /\ reqs' = [reqs EXCEPT ![r] = NoReq]
    /\ UNCHANGED <<now, polls, options, votes, hits, put, delOpt, delPoll,
                   freshOpts, clients, last,
                   event, life, sweep,
                   edit, svc, stats, rl>>

(***************************************************************************)
(* routes/polls.js: PUT /api/polls/:id, in a transaction.  The reads of    *)
(* the transaction are one step, its writes take effect together at the    *)
(* commit.                                                                 *)
(***************************************************************************)
OptionsPerPut == 2     \* updatePollValidation: at least 2 options

\* the PUT and DELETE requests received so far
mutations ==
    (IF put.pc = "idle" THEN 0 ELSE 1) + (IF delOpt.pc = "idle" THEN 0 ELSE 1)
    + (IF delPoll.pc = "idle" THEN 0 ELSE 1)

NoPut == [pc |-> "idle", user |-> "", isPublished |-> "absent",
          options |-> FALSE, res |-> NoRes]

\* request bodies: new options, or a new value of isPublished
PutBodies == {[isPublished |-> "absent", options |-> TRUE],
              [isPublished |-> "true", options |-> FALSE],
              [isPublished |-> "false", options |-> FALSE]}

ErrPutDenied == "Access denied. You can only update your own polls."
ErrOptionsLocked == "Cannot modify options after votes have been cast"
ErrPreSave == "Expiration date must be in the future"
ErrNoDocument == "No document found for query"

putDone(res) == [NoPut EXCEPT !.pc = "done", !.res = res]

\* Poll.findById, the creator check, Vote.countDocuments and the check
\* that guards the replacement of the options
PutRead(user, body) ==
    /\ put.pc = "idle"
    /\ mutations < MaxMutations
    /\ body.options => freshOpts < MaxOptionPuts
    /\ LET poll == findPollById(P1)
           voteCount == Cardinality({v \in votes : v.poll = P1})
       IN  put' =
             IF ~poll.exists THEN putDone(Res(404, ErrPollNotFound))
             ELSE IF poll.creator # user THEN putDone(Res(403, ErrPutDenied))
             ELSE IF body.options /\ voteCount > 0
             THEN putDone(Res(400, ErrOptionsLocked))
             ELSE [pc |-> "commit", user |-> user,
                   isPublished |-> body.isPublished,
                   options |-> body.options, res |-> NoRes]
    /\ UNCHANGED <<now, polls, options, votes, hits, reqs, delOpt, delPoll,
                   freshOpts, clients, last,
                   event, life, sweep,
                   edit, svc, stats, rl>>

\* PollOption.deleteMany, PollOption.insertMany, poll.save (with the
\* pre('save') hook) and commitTransaction; a failed save aborts all of it
PutCommit ==
    /\ put.pc = "commit"
    /\ LET poll == [polls[P1] EXCEPT !.isPublished =
                       IF put.isPublished = "absent" THEN @
                       ELSE put.isPublished = "true"]
           inserted == {[id |-> NewOptionId(OptionsPerPut * freshOpts + k),
                         poll |-> P1] : k \in 1..OptionsPerPut}
       IN  IF ~polls[P1].exists
           THEN /\ put' = putDone(Res(400, ErrNoDocument))
                /\ UNCHANGED <<polls, options, freshOpts>>
           ELSE IF ~preSaveOk(poll, now)
           THEN /\ put' = putDone(Res(400, ErrPreSave))
                /\ UNCHANGED <<polls, options, freshOpts>>
           ELSE /\ polls' = [polls EXCEPT ![P1] = poll]
                /\ options' = IF put.options
                              THEN {o \in options : o.poll # P1} \cup inserted
                              ELSE options
                /\ freshOpts' = IF put.options THEN freshOpts + 1 ELSE freshOpts
                /\ put' = putDone(Res(200, ""))
    /\ UNCHANGED <<now, votes, hits, reqs, delOpt, delPoll, clients, last,
                   event, life, sweep,
                   edit, svc, stats, rl>>

(***************************************************************************)
(* routes/polls.js: DELETE /api/polls/:id, in a transaction.               *)
(***************************************************************************)
NoDel == [pc |-> "idle", target |-> << >>, res |-> NoRes]

ErrDeleteDenied == "Access denied. You can only delete your own polls."

delDone(res) == [NoDel EXCEPT !.pc = "done", !.res = res]

\* Poll.findById and the creator check
DeletePollRead(user) ==
    /\ delPoll.pc = "idle"
    /\ mutations < MaxMutations
    /\ LET poll == findPollById(P1)
       IN  delPoll' =
             IF ~poll.exists THEN delDone(Res(404, ErrPollNotFound))
             ELSE IF poll.creator # user THEN delDone(Res(403, ErrDeleteDenied))
             ELSE [NoDel EXCEPT !.pc = "commit", !.target = P1]
    /\ UNCHANGED <<now, polls, options, votes, hits, reqs, put, delOpt,
                   freshOpts, clients, last,
                   event, life, sweep,
                   edit, svc, stats, rl>>

\* Vote.deleteMany, PollOption.deleteMany, Poll.findByIdAndDelete, commit
DeletePollCommit ==
    /\ delPoll.pc = "commit"
    /\ votes' = {v \in votes : v.poll # delPoll.target}
    /\ options' = {o \in options : o.poll # delPoll.target}
    /\ polls' = [polls EXCEPT ![delPoll.target] = NoPoll]
    /\ delPoll' = delDone(Res(200, ""))
    /\ UNCHANGED <<now, hits, reqs, put, delOpt, freshOpts, clients, last,
                   event, life, sweep,
                   edit, svc, stats, rl>>

(***************************************************************************)
(* routes/pollOptions.js: DELETE /api/options/:id                          *)
(***************************************************************************)
ErrOptionNotFound == "Option not found"
ErrOptionHasVotes == "Cannot delete option that has votes"

DeleteTargets == {O1}

\* const option = await PollOption.findById(req.params.id)
DeleteOptionFind(o) ==
    /\ delOpt.pc = "idle"
    /\ mutations < MaxMutations
    /\ delOpt' = IF \E x \in options : x.id = o
                 THEN [NoDel EXCEPT !.pc = "count", !.target = o]
                 ELSE delDone(Res(404, ErrOptionNotFound))
    /\ UNCHANGED <<now, polls, options, votes, hits, reqs, put, delPoll,
                   freshOpts, clients, last,
                   event, life, sweep,
                   edit, svc, stats, rl>>

\* const voteCount = await Vote.countDocuments({ pollOption: option._id })
DeleteOptionCount ==
    /\ delOpt.pc = "count"
    /\ LET voteCount == Cardinality({v \in votes : v.pollOption = delOpt.target})
       IN  delOpt' = IF voteCount > 0 THEN delDone(Res(400, ErrOptionHasVotes))
                     ELSE [delOpt EXCEPT !.pc = "delete"]
    /\ UNCHANGED <<now, polls, options, votes, hits, reqs, put, delPoll,
                   freshOpts, clients, last,
                   event, life, sweep,
                   edit, svc, stats, rl>>

\* await PollOption.findByIdAndDelete(req.params.id)
DeleteOptionDelete ==
    /\ delOpt.pc = "delete"
    /\ options' = {x \in options : x.id # delOpt.target}
    /\ delOpt' = delDone(Res(200, ""))
    /\ UNCHANGED <<now, polls, votes, hits, reqs, put, delPoll, freshOpts,
                   clients, last,
                   event, life, sweep,
                   edit, svc, stats, rl>>

(***************************************************************************)
(* server.js: the WebSocket connections.  A connection is in wss.clients   *)
(* from the handshake until its close completes; state is its readyState   *)
(* ("none": not in wss.clients).                                           *)
(***************************************************************************)
Letters == {"a","b","c","d","e","f","g","h","i","j","k","l","m","n","o","p",
            "q","r","s","t","u","v","w","x","y","z",
            "A","B","C","D","E","F","G","H","I","J","K","L","M","N","O","P",
            "Q","R","S","T","U","V","W","X","Y","Z"}

IsHexChar(ch) == ch \in HexChars
IsTypeChar(ch) == ch \in Letters \cup {"_"}

TSubscribe == <<"s","u","b","s","c","r","i","b","e">>
TUnsubscribe == <<"u","n","s","u","b","s","c","r","i","b","e">>
TPing == <<"p","i","n","g">>
TVote == <<"v","o","t","e">>
ShortId == <<"a", "b">>

\* an inbound message: too large, not JSON, or a parsed object with its
\* type and pollId fields (an absent field is the empty string)
Msg(type, pollId) ==
    [tooLarge |-> FALSE, json |-> TRUE, type |-> type, pollId |-> pollId]

WsMessages ==
    {Msg(TSubscribe, P1), Msg(TSubscribe, P2), Msg(TSubscribe, ShortId),
     Msg(TSubscribe, BadId), Msg(TSubscribe, << >>), Msg(TUnsubscribe, << >>),
     Msg(TPing, << >>), Msg(TVote, << >>), Msg(<< >>, << >>),
     [tooLarge |-> TRUE, json |-> TRUE, type |-> TPing, pollId |-> << >>],
     [tooLarge |-> FALSE, json |-> FALSE, type |-> << >>, pollId |-> << >>]}

\* sanitizeWebSocketMessage
sanitizeWebSocketMessage(data) ==
    [data EXCEPT !.pollId = SelectSeq(@, IsHexChar),
                 !.type = SelectSeq(@, IsTypeChar)]

\* a frame sent by the server
Frame(type, pollId) ==
    [type |-> type, by |-> 0, pollId |-> pollId, voteCounts |-> << >>,
     totalVotes |-> 0, isExpired |-> FALSE]

send(c, frame) == [clients EXCEPT ![c].inbox = Append(@, frame)]

WsConns == {"c1", "c2"}
Tokens == {"none", "valid", "invalid"}
TokenUser == "u1"                    \* decoded.userId of the valid token
AuthFailureCode == 1008              \* ws.close(1008, 'Invalid authentication')

NoMessage == [tooLarge |-> FALSE, json |-> FALSE, type |-> << >>,
              pollId |-> << >>]

\* the latest event: a handshake with its token, an inbound message, or a
\* firing of the heartbeat timer
NoEvent == [kind |-> "none", conn |-> "", token |-> "", message |-> NoMessage]
ConnectionEvent(c, token) == [NoEvent EXCEPT !.kind = "connection", !.conn = c,
                                             !.token = token]
MessageEvent(c, message) == [NoEvent EXCEPT !.kind = "message", !.conn = c,
                                            !.message = message]
HeartbeatEvent == [NoEvent EXCEPT !.kind = "heartbeat"]

\* the handshake with jwt.decode in place of jwt.verify: a token that
\* does not verify is not rejected
handshakeNoVerify(token) ==
    [NoClient EXCEPT !.state = "open",
                     !.userId = IF token = "none" THEN "" ELSE TokenUser,
                     !.inbox = <<Frame("connected", NoSub)>>]

\* the connection after the handshake: jwt.verify throws on an invalid or
\* expired token and the handler closes the socket and returns; otherwise
\* ws.userId is set when there is a token, and the connected frame is sent
handshake(token) ==
    IF token = "invalid"
    THEN [NoClient EXCEPT !.state = "closing", !.closeCode = AuthFailureCode]
    ELSE [NoClient EXCEPT !.state = "open",
                          !.userId = IF token = "valid" THEN TokenUser ELSE "",
                          !.inbox = <<Frame("connected", NoSub)>>]

\* wss.on('connection')
Connect(c, token) ==
    /\ clients[c].state = "none"
    /\ clients' = [clients EXCEPT ![c] = handshake(token)]
    /\ event' = ConnectionEvent(c, token)
    /\ UNCHANGED <<now, polls, options, votes, hits, reqs, put, delOpt,
                   delPoll, freshOpts, last, life, sweep,
                   edit, svc, stats, rl>>

\* case 'unsubscribe' without ws.pollId = null
onUnsubscribeKeep(c) == clients

\* case 'unsubscribe'
onUnsubscribe(c) == [clients EXCEPT ![c].pollId = NoSub]

\* case 'subscribe' once the pollId is known to be present
onSubscribe(c, pollId) ==
    [clients EXCEPT ![c].pollId = pollId,
                    ![c].inbox = Append(@, Frame("subscription_confirmed",
                                                 pollId))]

\* ws.on('message')
OnMessage(c, message) ==
    /\ clients[c].state = "open"
    /\ Len(clients[c].inbox) < MaxInbox
    /\ LET error == send(c, Frame("error", NoSub))
           sanitizedData == sanitizeWebSocketMessage(message)
       IN  clients' =
             IF message.tooLarge \/ ~message.json \/ message.type = << >>
             THEN error
             ELSE IF sanitizedData.type = TSubscribe
             THEN IF sanitizedData.pollId = << >>
                  THEN error
                  ELSE onSubscribe(c, sanitizedData.pollId)
             ELSE IF sanitizedData.type = TUnsubscribe
             THEN onUnsubscribe(c)
             ELSE IF sanitizedData.type = TPing
             THEN send(c, Frame("pong", NoSub))
             ELSE clients
    /\ event' = MessageEvent(c, message)
    /\ UNCHANGED <<now, polls, options, votes, hits, reqs, put, delOpt,
                   delPoll, freshOpts, last, life, sweep,
                   edit, svc, stats, rl>>

\* the client reads the frames it was sent
Receive(c) ==
    /\ clients[c].inbox # << >>
    /\ clients' = [clients EXCEPT ![c].inbox = << >>]
    /\ event' = NoEvent
    /\ UNCHANGED <<now, polls, options, votes, hits, reqs, put, delOpt,
                   delPoll, freshOpts, last, life, sweep,
                   edit, svc, stats, rl>>

\* the closing handshake starts (either side): readyState CLOSING
BeginClose(c) ==
    /\ clients[c].state = "open"
    /\ clients' = [clients EXCEPT ![c].state = "closing"]
    /\ event' = NoEvent
    /\ UNCHANGED <<now, polls, options, votes, hits, reqs, put, delOpt,
                   delPoll, freshOpts, last, life, sweep,
                   edit, svc, stats, rl>>

\* the socket has closed: ws removes it from wss.clients
Closed(c) ==
    /\ clients[c].state = "closing"
    /\ clients' = [clients EXCEPT ![c] = NoClient]
    /\ event' = NoEvent
    /\ UNCHANGED <<now, polls, options, votes, hits, reqs, put, delOpt,
                   delPoll, freshOpts, last, life, sweep,
                   edit, svc, stats, rl>>

\* a call broadcastToPoll(pollId, data)
Broadcast(pollId, failing) ==
    /\ \A c \in Conns : Len(clients[c].inbox) < MaxInbox
    /\ clients' = broadcastToPoll(pollId, Frame("vote_update", pollId), failing)
    /\ last' = Call(pollId, failing)
    /\ event' = NoEvent
    /\ UNCHANGED <<now, polls, options, votes, hits, reqs, put, delOpt,
                   delPoll, freshOpts, life, sweep,
                   edit, svc, stats, rl>>

\* the heartbeat on one connection when ws.isAlive is never set back to
\* false
heartbeatNoReset(cl) ==
    IF cl.state = "none" THEN cl
    ELSE IF ~cl.isAlive THEN [cl EXCEPT !.state = "closing"]
    ELSE cl

\* the heartbeat on one connection of wss.clients: ws.terminate() when the
\* last ping was not answered, otherwise isAlive = false and ws.ping()
heartbeat(cl) ==
    IF cl.state = "none" THEN cl
    ELSE IF ~cl.isAlive THEN [cl EXCEPT !.state = "closing"]
    ELSE [cl EXCEPT !.isAlive = FALSE]

\* setInterval(() => wss.clients.forEach(..), 30000) fires
Heartbeat ==
    /\ clients' = [c \in Conns |->
                      [heartbeat(clients[c]) EXCEPT !.pinged =
                          IF clients[c].state = "open" THEN TRUE ELSE @]]
    /\ event' = HeartbeatEvent
    /\ UNCHANGED <<now, polls, options, votes, hits, reqs, put, delOpt,
                   delPoll, freshOpts, last, life, sweep,
                   edit, svc, stats, rl>>

\* the client answers the ping: ws.on('pong') sets isAlive
Pong(c) ==
    /\ clients[c].state = "open"
    /\ clients[c].pinged
    /\ clients' = [clients EXCEPT ![c].isAlive = TRUE, ![c].pinged = FALSE]
    /\ event' = NoEvent
    /\ UNCHANGED <<now, polls, options, votes, hits, reqs, put, delOpt,
                   delPoll, freshOpts, last, life, sweep,
                   edit, svc, stats, rl>>

(***************************************************************************)
(* routes/polls.js: PATCH /:id/publish, /:id/unpublish, /:id/archive and   *)
(* /:id/extend.  Each handler reads the poll, checks it, changes the       *)
(* document in memory and awaits poll.save(); another request can run      *)
(* between the read and the save.                                          *)
(***************************************************************************)
LifeReqs == 1 .. NumLife
LifeKinds == {"publish", "unpublish", "archive", "extend"}

ErrAlreadyPublished == "Poll is already published"
ErrAlreadyUnpublished == "Poll is already unpublished"
ErrNotExpired == "Only expired polls can be archived"
ErrAlreadyArchived == "Poll is already archived"
ErrExtendExpired == "Cannot extend an expired poll"
ErrExtendEarlier == "New expiration date must be after current expiration date"
\* 403 of each route
lifeDenied(kind) ==
    IF kind = "publish"
    THEN "Access denied. You can only publish your own polls."
    ELSE IF kind = "unpublish"
    THEN "Access denied. You can only unpublish your own polls."
    ELSE IF kind = "archive"
    THEN "Access denied. You can only archive your own polls."
    ELSE "Access denied. You can only extend your own polls."
ErrNotAdmin == "Access denied. Admin privileges required."

\* a lifecycle request: where it is, what it asks, the document it read
\* (with the handler's change applied) and its response
NoLife == [pc |-> "idle", kind |-> "", user |-> "", poll |-> P1,
           newExpiry |-> NoExpiry, doc |-> NoPoll, res |-> NoRes]

\* the checks of a handler on the document it has read, in the order of the
\* code; NoRes when the handler goes on to change the document.  The extend
\* route validates newExpiry against the clock before the handler runs.
lifeCheck(kind, user, newExpiry, p, t) ==
    IF kind = "extend" /\ newExpiry <= t THEN Res(400, ErrValidation)
    ELSE IF ~p.exists THEN Res(404, ErrPollNotFound)
    ELSE IF p.creator # user THEN Res(403, lifeDenied(kind))
    ELSE IF kind = "publish"
    THEN IF p.isPublished THEN Res(400, ErrAlreadyPublished) ELSE NoRes
    ELSE IF kind = "unpublish"
    THEN IF ~p.isPublished THEN Res(400, ErrAlreadyUnpublished) ELSE NoRes
    ELSE IF kind = "archive"
    THEN IF ~isExpired(p, t) THEN Res(400, ErrNotExpired)
         ELSE IF ~p.isPublished THEN Res(400, ErrAlreadyArchived)
         ELSE NoRes
    ELSE IF isExpired(p, t) THEN Res(400, ErrExtendExpired)
    ELSE IF p.expiresAt # NoExpiry /\ newExpiry <= p.expiresAt
    THEN Res(400, ErrExtendEarlier)
    ELSE NoRes

\* the assignment each handler makes to the document before saving it
lifeChange(kind, newExpiry, p) ==
    IF kind = "publish" THEN [p EXCEPT !.isPublished = TRUE]
    ELSE IF kind = "extend" THEN [p EXCEPT !.expiresAt = newExpiry]
    ELSE [p EXCEPT !.isPublished = FALSE]

\* poll.save() of a document changed in memory: the pre('save') hook runs on
\* the document, then the modified path is written to the stored poll
saveLife(kind, doc, stored) ==
    IF kind = "extend" THEN [stored EXCEPT !.expiresAt = doc.expiresAt]
    ELSE [stored EXCEPT !.isPublished = doc.isPublished]

\* validation, Poll.findById and the checks, up to `await poll.save()`
LifeRead(r, kind, user, pollId, newExpiry) ==
    /\ life[r].pc = "idle"
    /\ \A q \in LifeReqs : q < r => life[q].pc # "idle"
    /\ LET p == findPollById(pollId)
           out == lifeCheck(kind, user, newExpiry, p, now)
       IN  life' = [life EXCEPT ![r] =
                      [pc |-> IF out = NoRes THEN "save" ELSE "done",
                       kind |-> kind, user |-> user, poll |-> pollId,
                       newExpiry |-> newExpiry,
                       doc |-> IF out = NoRes
                               THEN lifeChange(kind, newExpiry, p) ELSE p,
                       res |-> out]]
    /\ UNCHANGED <<now, polls, options, votes, hits, reqs, put, delOpt,
                   delPoll, freshOpts, clients, last, event, sweep,
                   edit, svc, stats, rl>>

\* poll.save() and the response; catch (error) answers 400 error.message
LifeSave(r) ==
    /\ life[r].pc = "save"
    /\ LET q == life[r]
           stored == polls[q.poll]
       IN  IF ~preSaveOk(q.doc, now)
           THEN /\ life' = [life EXCEPT ![r].pc = "done",
                                        ![r].res = Res(400, ErrPreSave)]
                /\ UNCHANGED polls
           ELSE IF ~stored.exists
           THEN /\ life' = [life EXCEPT ![r].pc = "done",
                                        ![r].res = Res(400, ErrNoDocument)]
                /\ UNCHANGED polls
           ELSE /\ polls' = [polls EXCEPT
                               ![q.poll] = saveLife(q.kind, q.doc, stored)]
                /\ life' = [life EXCEPT ![r].pc = "done",
                                        ![r].res = Res(200, "")]
    /\ UNCHANGED <<now, options, votes, hits, reqs, put, delOpt, delPoll,
                   freshOpts, clients, last, event, sweep,
                   edit, svc, stats, rl>>

(***************************************************************************)
(* models/Poll.js: findExpired and cleanupExpiredPolls, called by          *)
(* POST /cleanup/expired for an admin.                                     *)
(***************************************************************************)
\* Poll.findExpired(): isPublished and expiresAt <= now
findExpired(t) ==
    {p \in PollIds : /\ polls[p].exists
                     /\ polls[p].isPublished
                     /\ polls[p].expiresAt # NoExpiry
                     /\ polls[p].expiresAt <= t}

\* Poll.findActive(): isPublished and expiresAt null or > now
findActive(t) ==
    {p \in PollIds : /\ polls[p].exists
                     /\ polls[p].isPublished
                     /\ \/ polls[p].expiresAt = NoExpiry
                        \/ polls[p].expiresAt > t}

\* the orders in which a query can return a set of polls
RECURSIVE ordersOf(_)
ordersOf(S) ==
    IF S = {} THEN {<< >>}
    ELSE UNION {{<<p>> \o rest : rest \in ordersOf(S \ {p})} : p \in S}

\* the loop of cleanupExpiredPolls passes over the polls without
\* autoArchive without awaiting anything
RECURSIVE skipManual(_, _)
skipManual(queue, docs) ==
    IF queue = << >> THEN queue
    ELSE IF docs[Head(queue)].autoArchive THEN queue
    ELSE skipManual(Tail(queue), docs)

\* the sweep: the documents findExpired returned, the polls the loop has
\* still to visit, the polls whose save was called, and the response
NoSweep == [pc |-> "idle", docs |-> [p \in PollIds |-> NoPoll],
            found |-> {}, queue |-> << >>, saved |-> {}, res |-> NoRes,
            cleanedCount |-> 0]

SweepCleaned == Res(200, "")

\* the role check, `await this.findExpired()` and the loop up to its first
\* `await poll.save()`
SweepFind(admin) ==
    /\ sweep.pc = "idle"
    /\ IF ~admin
       THEN sweep' = [sweep EXCEPT !.pc = "done", !.res = Res(403, ErrNotAdmin)]
       ELSE \E order \in ordersOf(findExpired(now)) :
               LET queue == skipManual(order, polls)
               IN  sweep' = [sweep EXCEPT
                       !.docs = polls,
                       !.found = findExpired(now),
                       !.queue = queue,
                       !.cleanedCount = Len(order),
                       !.pc = IF queue = << >> THEN "done" ELSE "save",
                       !.res = IF queue = << >> THEN SweepCleaned ELSE NoRes]
    /\ UNCHANGED <<now, polls, options, votes, hits, reqs, put, delOpt,
                   delPoll, freshOpts, clients, last, event, life,
                   edit, svc, stats, rl>>

\* poll.isPublished = false; await poll.save() for the poll at the head of
\* the queue, then the loop up to the next save.  A save that throws ends
\* cleanupExpiredPolls, and the route answers 500 error.message.
SweepSave ==
    /\ sweep.pc = "save"
    /\ LET p == Head(sweep.queue)
           doc == [sweep.docs[p] EXCEPT !.isPublished = FALSE]
           rest == skipManual(Tail(sweep.queue), sweep.docs)
       IN  IF ~preSaveOk(doc, now)
           THEN /\ sweep' = [sweep EXCEPT !.pc = "done",
                                          !.saved = @ \union {p},
                                          !.res = Res(500, ErrPreSave)]
                /\ UNCHANGED polls
           ELSE IF ~polls[p].exists
           THEN /\ sweep' = [sweep EXCEPT !.pc = "done",
                                          !.saved = @ \union {p},
                                          !.res = Res(500, ErrNoDocument)]
                /\ UNCHANGED polls
           ELSE /\ polls' = [polls EXCEPT ![p].isPublished = FALSE]
                /\ sweep' = [sweep EXCEPT
                       !.saved = @ \union {p},
                       !.queue = rest,
                       !.pc = IF rest = << >> THEN "done" ELSE "save",
                       !.res = IF rest = << >> THEN SweepCleaned ELSE NoRes]
    /\ UNCHANGED <<now, options, votes, hits, reqs, put, delOpt, delPoll,
                   freshOpts, clients, last, event, life,
                   edit, svc, stats, rl>>

(***************************************************************************)
(* routes/pollOptions.js: PUT /api/options/:id.  The router is mounted     *)
(* without the auth middleware, so the caller's identity ("" when the      *)
(* request carries no token) is not looked at.  The text of the options    *)
(* stored in the initial state is kept in edit.texts; it has a meaning     *)
(* while the option is stored.                                             *)
(***************************************************************************)
OldText == "A"        \* the text of the options in the initial state
NewText == "B"        \* the text of a request body
NoText == ""          \* a body without text
Callers == {"", "u1", "u2"}
TextOptions == {O1, O2, O3}

\* the ValidationError of a required path that is not set
ErrTextRequired == "PollOption validation failed: text is required"

NoEdit == [pc |-> "idle", caller |-> "", target |-> << >>, text |-> NoText,
           texts |-> [o \in TextOptions |-> OldText], res |-> NoRes]

\* const option = await PollOption.findById(req.params.id)
OptionPutFind(caller, o, text) ==
    /\ edit.pc = "idle"
    /\ edit' = IF \E x \in options : x.id = o
               THEN [edit EXCEPT !.pc = "save", !.caller = caller,
                                 !.target = o, !.text = text]
               ELSE [edit EXCEPT !.pc = "done", !.caller = caller,
                                 !.target = o, !.text = text,
                                 !.res = Res(404, ErrOptionNotFound)]
    /\ UNCHANGED <<now, polls, options, votes, hits, reqs, put, delOpt,
                   delPoll, freshOpts, clients, last, event, life, sweep,
                   svc, stats, rl>>

\* option.text = text; await option.save(); catch answers 400
OptionPutSave ==
    /\ edit.pc = "save"
    /\ edit' = IF edit.text = NoText
               THEN [edit EXCEPT !.pc = "done",
                                 !.res = Res(400, ErrTextRequired)]
               ELSE IF ~\E x \in options : x.id = edit.target
               THEN [edit EXCEPT !.pc = "done",
                                 !.res = Res(400, ErrNoDocument)]
               ELSE [edit EXCEPT !.pc = "done", !.res = Res(200, ""),
                                 !.texts[edit.target] = edit.text]
    /\ UNCHANGED <<now, polls, options, votes, hits, reqs, put, delOpt,
                   delPoll, freshOpts, clients, last, event, life, sweep,
                   svc, stats, rl>>

(***************************************************************************)
(* frontend/src/lib/websocket.ts: the client's WebSocketService, a         *)
(* singleton.  svc.socks are the WebSocket objects it has created, in      *)
(* order; sub is the ws.pollId the server holds for the socket's           *)
(* connection.  A subscribe or unsubscribe sent on an open socket is       *)
(* handled by the server in the same step.                                 *)
(***************************************************************************)
MaxReconnectAttempts == 5
ReconnectIntervalMs == 3000
NormalClosure == 1000
AbnormalClosure == 1006

\* a socket: readyState, the poll of the connect() call it goes back to,
\* the server's subscription, and whether a reconnect timer created it, and
\* whether that timer was pending when disconnect() was called
NoSock == [state |-> "closed", for |-> NoSub, sub |-> NoSub,
           byTimer |-> FALSE, stale |-> FALSE]

NoService == [pollId |-> NoSub, isManualClose |-> FALSE,
              reconnectAttempts |-> 0, ws |-> 0, socks |-> << >>,
              timers |-> << >>, maxReached |-> FALSE, connects |-> 0]

live(sock) == sock.state \in {"connecting", "open"}

\* this.ws && this.ws.readyState === WebSocket.OPEN
wsOpen(s) == s.ws # 0 /\ s.socks[s.ws].state = "open"

\* _connect(): this.ws = new WebSocket(wsUrl)
newSocket(s, for, byTimer, stale) ==
    [s EXCEPT !.socks = Append(@, [state |-> "connecting", for |-> for,
                                   sub |-> NoSub, byTimer |-> byTimer,
                                   stale |-> stale]),
              !.ws = Len(s.socks) + 1]

\* subscribeToPoll(pollId): the server stores the pollId of a subscribe
\* message and answers a subscribe without pollId with an error frame
subscribeToPoll(s, pollId) ==
    LET s1 == [s EXCEPT !.pollId = pollId]
    IN  IF wsOpen(s1) /\ pollId # NoSub
        THEN [s1 EXCEPT !.socks[s1.ws].sub = pollId]
        ELSE s1

\* unsubscribeFromPoll()
unsubscribeFromPoll(s) ==
    LET s1 == IF wsOpen(s) /\ s.pollId # NoSub
              THEN [s EXCEPT !.socks[s.ws].sub = NoSub]
              ELSE s
    IN  [s1 EXCEPT !.pollId = NoSub]

\* _attemptReconnect()
attemptReconnect(s, for) ==
    IF s.reconnectAttempts >= MaxReconnectAttempts
    THEN [s EXCEPT !.maxReached = TRUE]
    ELSE [s EXCEPT !.reconnectAttempts = @ + 1,
                   !.timers = Append(@,
                      [delay |-> ReconnectIntervalMs * (s.reconnectAttempts + 1),
                       for |-> for, stale |-> FALSE])]

\* connect(pollId, callbacks)
SvcConnect(pollId) ==
    /\ svc.connects < MaxConnects
    /\ Len(svc.socks) < MaxSockets
    /\ svc' = newSocket([svc EXCEPT !.pollId = pollId,
                                    !.isManualClose = FALSE,
                                    !.reconnectAttempts = 0,
                                    !.connects = @ + 1],
                        pollId, FALSE, FALSE)
    /\ UNCHANGED <<now, polls, options, votes, hits, reqs, put, delOpt,
                   delPoll, freshOpts, clients, last, event, life, sweep,
                   edit, stats, rl>>

\* ws.onopen of socket i
SockOpen(i) ==
    /\ i \in 1..Len(svc.socks)
    /\ svc.socks[i].state = "connecting"
    /\ svc' = subscribeToPoll([svc EXCEPT !.reconnectAttempts = 0,
                                          !.socks[i].state = "open"],
                              svc.pollId)
    /\ UNCHANGED <<now, polls, options, votes, hits, reqs, put, delOpt,
                   delPoll, freshOpts, clients, last, event, life, sweep,
                   edit, stats, rl>>

\* socket i closes with the given code: ws.onclose
SockClose(i, code) ==
    /\ i \in 1..Len(svc.socks)
    /\ \/ live(svc.socks[i])
       \/ svc.socks[i].state = "closing" /\ code = NormalClosure
    /\ LET s1 == [svc EXCEPT !.socks[i] = NoSock]
       IN  svc' = IF ~svc.isManualClose /\ code # NormalClosure
                  THEN attemptReconnect(s1, svc.socks[i].for)
                  ELSE s1
    /\ UNCHANGED <<now, polls, options, votes, hits, reqs, put, delOpt,
                   delPoll, freshOpts, clients, last, event, life, sweep,
                   edit, stats, rl>>

\* the callback of the k-th pending setTimeout of _attemptReconnect runs
TimerFires(k) ==
    /\ k \in 1..Len(svc.timers)
    /\ Len(svc.socks) < MaxSockets
    /\ LET t == svc.timers[k]
           s1 == [svc EXCEPT !.timers =
                     [j \in 1..(Len(svc.timers) - 1) |->
                         IF j < k THEN svc.timers[j] ELSE svc.timers[j + 1]]]
       IN  svc' = IF ~svc.isManualClose
                  THEN newSocket(s1, t.for, TRUE, t.stale)
                  ELSE s1
    /\ UNCHANGED <<now, polls, options, votes, hits, reqs, put, delOpt,
                   delPoll, freshOpts, clients, last, event, life, sweep,
                   edit, stats, rl>>

\* the component's cleanup calls unsubscribeFromPoll()
SvcUnsubscribe ==
    /\ svc' = unsubscribeFromPoll(svc)
    /\ UNCHANGED <<now, polls, options, votes, hits, reqs, put, delOpt,
                   delPoll, freshOpts, clients, last, event, life, sweep,
                   edit, stats, rl>>

\* disconnect(): this.ws.close(1000, 'Manual disconnect'); this.ws = null
SvcDisconnect ==
    /\ LET s1 == unsubscribeFromPoll([svc EXCEPT !.isManualClose = TRUE])
           s2 == IF s1.ws # 0 /\ live(s1.socks[s1.ws])
                 THEN [s1 EXCEPT !.socks[s1.ws].state = "closing",
                                 !.socks[s1.ws].sub = NoSub]
                 ELSE s1
       IN  svc' = [s2 EXCEPT !.ws = 0,
                             !.timers = [j \in 1..Len(s2.timers) |->
                                           [s2.timers[j] EXCEPT !.stale = TRUE]]]
    /\ UNCHANGED <<now, polls, options, votes, hits, reqs, put, delOpt,
                   delPoll, freshOpts, clients, last, event, life, sweep,
                   edit, stats, rl>>

(***************************************************************************)
(* routes/polls.js: GET /api/polls/:id/stats, the votes part of the        *)
(* answer; components/PollCard.tsx getPercentage computes the same value.  *)
(***************************************************************************)
StatOptions == <<O1, O2, O9>>

\* Math.floor((count / total) * 100)
percentageFloor(count, total) ==
    IF total > 0 THEN (100 * count) \div total ELSE 0

\* total > 0 ? Math.round((count / total) * 100) : 0, where Math.round
\* takes a value half-way between two integers to the larger one
percentage(count, total) ==
    IF total > 0 THEN (200 * count + total) \div (2 * total) ELSE 0

\* votes.filter(v => v.pollOption.toString() === option._id.toString()).length
votesFor(o, vs) == Cardinality({v \in vs : v.pollOption = o})

\* the votes Vote.find returns when the options have n[1], n[2], n[3] votes
votesWith(n) ==
    {[id |-> i, poll |-> P1,
      pollOption |-> IF i <= n[1] THEN StatOptions[1]
                     ELSE IF i <= n[1] + n[2] THEN StatOptions[2]
                     ELSE StatOptions[3]] : i \in 1 .. (n[1] + n[2] + n[3])}

\* the latest answer: votes.total and, per option, votes and percentage
NoStats == [asked |-> FALSE, total |-> 0,
            votes |-> [i \in 1..3 |-> 0], percentage |-> [i \in 1..3 |-> 0]]

\* the stats of a poll whose three options have n[1], n[2], n[3] votes
GetStats(n) ==
    /\ LET vs == votesWith(n)
       IN  stats' = [asked |-> TRUE,
                     total |-> Cardinality(vs),
                     votes |-> [i \in 1..3 |-> votesFor(StatOptions[i], vs)],
                     percentage |-> [i \in 1..3 |->
                         percentage(votesFor(StatOptions[i], vs),
                                    Cardinality(vs))]]
    /\ UNCHANGED <<now, polls, options, votes, hits, reqs, put, delOpt,
                   delPoll, freshOpts, clients, last, event, life, sweep,
                   edit, svc, rl>>

(***************************************************************************)
(* middleware/rateLimit.js: enhancedVoteLimiter as a middleware of its own *)
(* (store.increment, the comparison with max, and its handler).            *)
(***************************************************************************)
LimitKeys == {voteKey("u1", P1), voteKey("u2", P2)}

\* Math.ceil(x / 1000)
ceilDiv1000(x) == (x + 999) \div 1000

\* handler: Math.ceil(req.rateLimit.resetTime / 1000) - Math.floor(Date.now() / 1000)
retryAfter(resetTime, t) == ceilDiv1000(resetTime) - (t \div 1000)

\* the latest answer of the limiter (status 200: next() was called), the
\* totalHits and resetTime the store returned for it, and for every key
\* the time at which the store last started a window
NoLimit == [status |-> 0, key |-> << >>, totalHits |-> 0, resetTime |-> 0,
            retryAfter |-> 0,
            start |-> [k \in LimitKeys |-> T0]]

\* one request passes through the limiter
VoteLimiter(key) ==
    /\ hits[key].count <= VoteMax
    /\ LET h == increment(hits[key], now)
       IN  /\ hits' = [hits EXCEPT ![key] = h]
           /\ rl' = [status |-> IF h.count > VoteMax THEN 429 ELSE 200,
                     key |-> key,
                     totalHits |-> h.count,
                     resetTime |-> h.resetTime,
                     retryAfter |-> IF h.count > VoteMax
                                    THEN retryAfter(h.resetTime, now) ELSE 0,
                     start |-> IF h.count = 1
                               THEN [rl.start EXCEPT ![key] = now]
                               ELSE rl.start]
    /\ UNCHANGED <<now, polls, options, votes, reqs, put, delOpt, delPoll,
                   freshOpts, clients, last, event, life, sweep, edit, svc,
                   stats>>

\* time passes: half a window, or half a window and half a second
HalfWindowMs == (VoteWindowSec * 1000) \div 2
WaitSteps == {HalfWindowMs, HalfWindowMs + TickMs \div 2}

Wait(d) ==
    /\ now + d <= T0 + MaxWindows * VoteWindowSec * 1000 + TickMs
    /\ now' = now + d
    /\ UNCHANGED <<polls, options, votes, hits, reqs, put, delOpt, delPoll,
                   freshOpts, clients, last, event, life, sweep, edit, svc,
                   stats, rl>>


(***************************************************************************)
(* The clock.                                                              *)
(***************************************************************************)
Tick ==
    /\ now + TickMs <= T0 + MaxTicks * TickMs
    /\ now' = now + TickMs
    /\ UNCHANGED <<polls, options, votes, hits, reqs, put, delOpt, delPoll,
                   freshOpts, clients, last,
                   event, life, sweep,
                   edit, svc, stats, rl>>

(***************************************************************************)
(* Initial states: two stored polls with their options, no votes, three    *)
(* open connections, one subscribed to each poll and one not subscribed.   *)
(* The limiter has already counted VoteMax requests of u2 on P2 in the     *)
(* current window.                                                         *)
(***************************************************************************)
ActivePoll == PollDoc(TRUE, NoExpiry, FALSE)

\* Poll P1 as a draft, active without expiry, or expiring at ExpiryT with
\* or without allowVotingAfterExpiry.
InitPolls == {PollDoc(FALSE, NoExpiry, FALSE), ActivePoll,
              PollDoc(TRUE, ExpiryT, FALSE), PollDoc(TRUE, ExpiryT, TRUE)}

\* P1 is one of docs1 and P2 one of docs2
InitBoth(docs1, docs2) ==
    /\ now = T0
    /\ \E doc1 \in docs1, doc2 \in docs2 :
          polls = [p \in PollIds |-> IF p = P1 THEN doc1 ELSE doc2]
    /\ options = {[id |-> O1, poll |-> P1], [id |-> O2, poll |-> P1],
                  [id |-> O3, poll |-> P2]}
    /\ votes = {}
    /\ freshOpts = 0
    /\ hits = [k \in Users \X RawPollIds |->
                 IF k = <<"u2", P2>>
                 THEN [present |-> TRUE, count |-> VoteMax,
                       resetTime |-> (T0 \div 1000) + VoteWindowSec]
                 ELSE NoHits]
    /\ reqs = [r \in Reqs |-> NoReq]
    /\ put = NoPut
    /\ delOpt = NoDel
    /\ delPoll = NoDel
    /\ clients = [c \in Conns |->
                    [NoClient EXCEPT
                       !.state = "open",
                       !.pollId = IF c = "c1" THEN P1
                                  ELSE IF c = "c2" THEN P2 ELSE NoSub]]
    /\ last = NoCall
    /\ event = NoEvent
    /\ life = [r \in LifeReqs |-> NoLife]
    /\ sweep = NoSweep
    /\ edit = NoEdit
    /\ svc = NoService
    /\ stats = NoStats
    /\ rl = NoLimit

InitWith(docs) == InitBoth(docs, {ActivePoll})

\* the steps of a vote request after it has been received
VoteSteps ==
    \/ \E r \in Reqs : FindPoll(r)
    \/ \E r \in Reqs : FindOption(r)
    \/ \E r \in Reqs : FindVote(r)
    \/ \E r \in Reqs : Save(r)
    \/ \E r \in Reqs : FindVotes(r)
    \/ \E r \in Reqs : FindOptions(r, {})
    \/ \E r \in Reqs : DbError(r)

\* the requests that change polls and options
Mutations ==
    \/ \E u \in Users, body \in PutBodies : PutRead(u, body)
    \/ PutCommit
    \/ \E u \in Users : DeletePollRead(u)
    \/ DeletePollCommit
    \/ \E o \in DeleteTargets : DeleteOptionFind(o)
    \/ DeleteOptionCount
    \/ DeleteOptionDelete

(***************************************************************************)
(* Spec: NumReqs concurrent vote requests on an active poll, interleaved   *)
(* with the requests that change the poll and its options.                 *)
(***************************************************************************)
Init == InitWith({ActivePoll})

Next ==
    \/ \E r \in Reqs, in \in VoteInputs : Submit(r, in)
    \/ VoteSteps
    \/ Mutations

Spec == Init /\ [][Next]_vars

(***************************************************************************)
(* SpecGate: vote requests one after the other, on a poll in any of its    *)
(* lifecycle states, while the clock advances and the poll and its options *)
(* are changed.                                                            *)
(***************************************************************************)
InitGate == InitWith(InitPolls)

RECURSIVE SumCounts(_)
SumCounts(K) ==
    IF K = {} THEN 0
    ELSE LET k == CHOOSE x \in K : TRUE
         IN  hits[k].count + SumCounts(K \ {k})

\* the vote requests the limiter has counted since the initial state
submitted == SumCounts(DOMAIN hits) - VoteMax

SubmitAlone(in) ==
    /\ \A q \in Reqs : reqs[q].pc = "idle"
    /\ submitted < MaxSubmits
    /\ Submit(1, in)

\* one voter's requests, and the request of the voter the limiter stops
GateInputs == {in \in VoteInputs : in.user = "u1" \/ in.poll = P2}

NextGate ==
    \/ \E in \in GateInputs : SubmitAlone(in)
    \/ VoteSteps
    \/ \E r \in Reqs : Forget(r)
    \/ Mutations
    \/ Tick

SpecGate == InitGate /\ [][NextGate]_vars

(***************************************************************************)
(* SpecWs: connections come and go, subscribe and unsubscribe, and         *)
(* broadcastToPoll is called with well-formed and malformed poll ids.      *)
(***************************************************************************)
InitWs == InitWith({ActivePoll})

\* the messages that change a subscription
SubscriptionMessages ==
    {Msg(TSubscribe, P1), Msg(TSubscribe, P2), Msg(TSubscribe, ShortId),
     Msg(TUnsubscribe, << >>)}

NextWs ==
    \/ \E c \in WsConns, token \in {"none", "invalid"} : Connect(c, token)
    \/ \E c \in WsConns, m \in SubscriptionMessages : OnMessage(c, m)
    \/ \E c \in Conns : Receive(c)
    \/ \E c \in WsConns : BeginClose(c)
    \/ \E c \in WsConns : Closed(c)
    \/ \E pollId \in {P1, P2, ShortId, BadId}, failing \in SUBSET WsConns :
          Broadcast(pollId, failing)

SpecWs == InitWs /\ [][NextWs]_vars

(***************************************************************************)
(* SpecMsg: one connection is opened with any token, sends any message     *)
(* and is closed, while broadcasts go to the polls.                        *)
(***************************************************************************)
MsgConns == {"c1"}

InitMsg == InitWith({ActivePoll})

NextMsg ==
    \/ \E c \in MsgConns, token \in Tokens : Connect(c, token)
    \/ \E c \in MsgConns, m \in WsMessages : OnMessage(c, m)
    \/ \E c \in Conns : Receive(c)
    \/ \E c \in MsgConns : BeginClose(c)
    \/ \E c \in MsgConns : Closed(c)
    \/ \E pollId \in {P1, P2} : Broadcast(pollId, {})

SpecMsg == InitMsg /\ [][NextMsg]_vars

(***************************************************************************)
(* SpecLive: the heartbeat fires, clients answer its pings or not,         *)
(* connections are opened and closed, and broadcasts go to the polls.      *)
(***************************************************************************)
InitLive == InitWith({ActivePoll})

NextLive ==
    \/ Heartbeat
    \/ \E c \in Conns : Pong(c)
    \/ \E c \in WsConns, token \in Tokens : Connect(c, token)
    \/ \E c \in WsConns : BeginClose(c)
    \/ \E c \in Conns : Closed(c)
    \/ \E c \in Conns : Receive(c)
    \/ \E pollId \in {P1, P2} : Broadcast(pollId, {})

SpecLive == InitLive /\ [][NextLive]_vars

(***************************************************************************)
(* SpecLifecycle: NumLife lifecycle requests on P1, which can overlap, and *)
(* one run of the sweep, while the clock advances past ExpiryT.            *)
(***************************************************************************)
\* a poll that expires at ExpiryT
Expiring(pub, auto) ==
    [PollDoc(pub, ExpiryT, FALSE) EXCEPT !.autoArchive = auto]

\* P1 as a draft, active without expiry, or expiring, published or not,
\* with or without autoArchive; P2 active or expiring with autoArchive
LifePolls1 == {PollDoc(FALSE, NoExpiry, FALSE), ActivePoll,
               Expiring(TRUE, TRUE), Expiring(TRUE, FALSE),
               Expiring(FALSE, TRUE)}
LifePolls2 == {ActivePoll, Expiring(TRUE, TRUE)}

\* newExpiry of an extend request: in the past, the poll's own expiry, and
\* one and two ticks after it
ExtendInputs == {T0, ExpiryT, ExpiryT + TickMs, ExpiryT + 2 * TickMs}

\* the requests made: each kind by the creator on P1, a publish by another
\* user, and a publish of a poll that is not stored
LifeInputs ==
    {[kind |-> k, user |-> Creator, poll |-> P1, newExpiry |-> NoExpiry] :
        k \in LifeKinds \ {"extend"}}
    \union {[kind |-> "extend", user |-> Creator, poll |-> P1,
              newExpiry |-> e] : e \in ExtendInputs}
    \union {[kind |-> "publish", user |-> "u2", poll |-> P1,
              newExpiry |-> NoExpiry],
             [kind |-> "publish", user |-> Creator, poll |-> P3,
              newExpiry |-> NoExpiry]}

InitLifecycle == InitBoth(LifePolls1, LifePolls2)

NextLifecycle ==
    \/ \E r \in LifeReqs, i \in LifeInputs :
          LifeRead(r, i.kind, i.user, i.poll, i.newExpiry)
    \/ \E r \in LifeReqs : LifeSave(r)
    \/ \E admin \in BOOLEAN : SweepFind(admin)
    \/ SweepSave
    \/ Tick

SpecLifecycle == InitLifecycle /\ [][NextLifecycle]_vars

(***************************************************************************)
(* SpecOwner: one vote request, the requests that change the poll and its  *)
(* options, and a request that changes the text of an option.              *)
(***************************************************************************)
InitOwner == InitWith({ActivePoll})

OwnerVotes == {[user |-> "u2", poll |-> P1, pollOption |-> O1]}

\* the text updates made: by an unauthenticated caller, by another user and
\* by the creator, without text, and of an option that is not stored
EditInputs ==
    {[caller |-> c, target |-> O1, text |-> NewText] : c \in Callers}
    \union {[caller |-> Creator, target |-> O1, text |-> NoText],
            [caller |-> Creator, target |-> O9, text |-> NewText]}

NextOwner ==
    \/ \E in \in OwnerVotes : SubmitAlone(in)
    \/ VoteSteps
    \/ Mutations
    \/ \E i \in EditInputs : OptionPutFind(i.caller, i.target, i.text)
    \/ OptionPutSave

SpecOwner == InitOwner /\ [][NextOwner]_vars

(***************************************************************************)
(* SpecLimit: requests of two keys pass through the vote limiter while     *)
(* the window elapses.  Key (u2, P2) has used up its window at T0.         *)
(***************************************************************************)
InitLimit == InitWith({ActivePoll})

NextLimit ==
    \/ \E key \in LimitKeys : VoteLimiter(key)
    \/ \E d \in WaitSteps : Wait(d)

SpecLimit == InitLimit /\ [][NextLimit]_vars

(***************************************************************************)
(* SpecStats: the statistics of polls with three options and up to         *)
(* MaxCount votes per option.                                              *)
(***************************************************************************)
InitStats == InitWith({ActivePoll})

NextStats == \E a, b, c \in 0..MaxCount : GetStats(<<a, b, c>>)

SpecStats == InitStats /\ [][NextStats]_vars

(***************************************************************************)
(* SpecClient: the client's WebSocketService is connected for P1 or P2,    *)
(* its sockets open and close, its reconnect timers fire, and the          *)
(* component unsubscribes or disconnects.                                  *)
(***************************************************************************)
InitClient == InitWith({ActivePoll})

NextClient ==
    \/ \E p \in PollIds : SvcConnect(p)
    \/ \E i \in 1..MaxSockets : SockOpen(i)
    \/ \E i \in 1..MaxSockets, code \in {NormalClosure, AbnormalClosure} :
          SockClose(i, code)
    \/ \E k \in 1..MaxSockets : TimerFires(k)
    \/ SvcUnsubscribe
    \/ SvcDisconnect

SpecClient == InitClient /\ [][NextClient]_vars

(***************************************************************************)
(* Properties.                                                             *)
(***************************************************************************)
Success == Res(201, "")
Conflict == Res(400, ErrAlreadyVoted)
InvalidState == {Res(400, ErrUnpublished), Res(400, ErrExpired)}
NotFound == {Res(404, ErrPollNotFound), Res(400, ErrBadOption)}

settled == \A r \in Reqs : reqs[r].pc \in {"idle", "done"}
noMutation == put.pc = "idle" /\ delOpt.pc = "idle" /\ delPoll.pc = "idle"

\* option o is stored and belongs to poll p
optionOf(o, p) == [id |-> o, poll |-> p] \in options

\* poll p is stored
pollStored(p) == p \in PollIds /\ polls[p].exists

\* the requests of voter u for poll p that name an option of the poll
requestsOf(u, p) ==
    {r \in Reqs : /\ reqs[r].pc # "idle"
                  /\ reqs[r].user = u /\ reqs[r].poll = p
                  /\ optionOf(reqs[r].pollOption, p)}

\* C1: concurrent vote requests of one voter for one poll (within the
\* voter's quota, on a votable poll that nothing else changes, and with no
\* failing database call) end with exactly one success and "already voted"
\* for all the others, and at most one vote per (voter, poll) is ever
\* stored.
C1_OneSuccessRestConflict ==
    /\ \A v, w \in votes : (v.user = w.user /\ v.poll = w.poll) => v = w
    /\ \A u \in Users, p \in PollIds :
          LET R == requestsOf(u, p)
          IN  ( /\ Cardinality(R) >= 2
                /\ noMutation
                /\ \A r \in R : /\ reqs[r].pc = "done"
                                  /\ reqs[r].res.error \notin {ErrDb, ErrRateLimit} )
              => /\ Cardinality({r \in R : reqs[r].res = Success}) = 1
                 /\ \A r \in R : reqs[r].res \in {Success, Conflict}

\* C2: when the insert of a vote is refused because a vote of the same
\* voter on the same poll is stored, the response is the "already voted"
\* response.
C2_RefusedInsertIsConflict ==
    [][ \A r \in Reqs :
          ( /\ reqs[r].pc = "save"
            /\ reqs'[r].pc = "done"
            /\ reqs'[r].res.error # ErrDb
            /\ duplicateKey(reqs[r].user, reqs[r].poll) )
          => reqs'[r].res = Conflict ]_vars

RECURSIVE SumOf(_, _)
SumOf(f, D) ==
    IF D = {} THEN 0
    ELSE LET d == CHOOSE x \in D : TRUE IN f[d] + SumOf(f, D \ {d})

\* the tally of a poll as the vote route computes it from the collections
tally(p) ==
    voteCounts({o \in options : o.poll = p}, {v \in votes : v.poll = p})

\* C3: once the vote requests have settled (all database calls having
\* succeeded, whatever PUT /api/polls/:id and DELETE /api/options/:id did),
\* the per-option counts of a poll add up to the number of its votes.
C3_CountsAddUp ==
    ( /\ settled
      /\ \A r \in Reqs : reqs[r].res.error # ErrDb
      /\ delPoll.pc = "idle" )
    => \A p \in PollIds :
          SumOf(tally(p), DOMAIN tally(p))
             = Cardinality({v \in votes : v.poll = p})

\* C4: every stored vote refers to a stored poll and to a stored option
\* of that poll.
C4_VotesReferToOptions ==
    \A v \in votes : pollStored(v.poll) /\ optionOf(v.pollOption, v.poll)

missingTarget(r) ==
    \/ ~pollStored(reqs[r].poll)
    \/ ~optionOf(reqs[r].pollOption, reqs[r].poll)

\* C6 as stated: a request that ends (other than by a failed database
\* call) while its poll or its option is missing ends with NotFound,
\* stores no vote and broadcasts nothing.
C6_MissingIsNotFound ==
    [][ \A r \in Reqs :
          ( /\ reqs[r].pc \in AwaitPcs
            /\ reqs'[r].pc = "done"
            /\ reqs'[r].res.error # ErrDb
            /\ reqs[r].pc \in {"findPoll", "findOption"}
            /\ missingTarget(r) )
          => /\ reqs'[r].res \in NotFound
             /\ ~reqs'[r].stored /\ reqs'[r].bcasts = 0 ]_vars

\* C6 as amended: the poll is looked up first, and a request whose poll is
\* missing ends there with NotFound; the option is looked up only once the
\* gating checks have passed, and a request whose option is then missing
\* or belongs to another poll ends there with NotFound (a failed database
\* call ends either with the generic failure); every request that ends
\* with NotFound or InvalidState has stored no vote and broadcast nothing.
C6_NotFoundAfterGating ==
    [][ \A r \in Reqs :
          /\ ( reqs[r].pc = "findPoll" /\ reqs'[r].pc # "findPoll"
               /\ ~pollStored(reqs[r].poll) )
             => /\ reqs'[r].pc = "done"
                /\ reqs'[r].res \in {Res(404, ErrPollNotFound), Res(400, ErrDb)}
          /\ ( reqs[r].pc = "findOption" /\ reqs'[r].pc # "findOption"
               /\ ~optionOf(reqs[r].pollOption, reqs[r].poll) )
             => /\ reqs'[r].pc = "done"
                /\ reqs'[r].res \in {Res(400, ErrBadOption), Res(400, ErrDb)}
          /\ reqs'[r].res \in NotFound \cup InvalidState
             => ~reqs'[r].stored /\ reqs'[r].bcasts = 0 ]_vars

\* C6 witness: a vote for an option of another poll has been rejected.
C6_Witness ==
    \E r \in Reqs :
        /\ reqs[r].pc = "done" /\ reqs[r].res = Res(400, ErrBadOption)
        /\ reqs[r].poll = P1 /\ reqs[r].pollOption = O3
        /\ [id |-> O3, poll |-> P2] \in options
        /\ ~reqs[r].stored /\ reqs[r].bcasts = 0

\* C7: a request whose vote.save committed ends with the success
\* response, and a request that ends with another response stored no vote.
C7_SuccessIffStored ==
    \A r \in Reqs :
        reqs[r].pc = "done" => (reqs[r].stored <=> reqs[r].res = Success)

\* the vote_update frames of request r that connection c holds
framesOf(c, r) ==
    {i \in 1..Len(clients[c].inbox) :
        clients[c].inbox[i].type = "vote_update" /\ clients[c].inbox[i].by = r}

\* C8: a request that ended has called broadcastToPoll once if its vote
\* was stored and never otherwise, and the tallies it sent count its vote.
C8_OneBroadcastPerVote ==
    \A r \in Reqs :
        reqs[r].pc = "done" =>
            /\ reqs[r].bcasts = (IF reqs[r].stored THEN 1 ELSE 0)
            /\ \A c \in Conns : \A i \in framesOf(c, r) :
                  LET f == clients[c].inbox[i]
                  IN  /\ f.totalVotes >= 1
                      /\ reqs[r].pollOption \in DOMAIN f.voteCounts
                      /\ f.voteCounts[reqs[r].pollOption] >= 1

\* C9: a connection holds the vote_update frames of a poll in the order
\* in which the votes committed, and their totalVotes never decreases.
C9_UpdatesInCommitOrder ==
    \A c \in Conns : \A i, j \in 1..Len(clients[c].inbox) :
        LET f == clients[c].inbox[i]
            g == clients[c].inbox[j]
        IN  ( i < j /\ f.type = "vote_update" /\ g.type = "vote_update"
              /\ f.pollId = g.pollId /\ f.by \in Reqs /\ g.by \in Reqs )
            => /\ reqs[f.by].seq < reqs[g.by].seq
               /\ f.totalVotes <= g.totalVotes

\* the connections that got the vote_update frame of poll id in this step
gotUpdate(pollId) ==
    {c \in Conns :
        clients'[c].inbox = Append(clients[c].inbox, Frame("vote_update", pollId))}

\* C10: a call broadcastToPoll(pollId, data) with a well-formed pollId
\* puts the payload on every open connection subscribed to pollId whose
\* send does not throw, and on no other connection, and returns the number
\* of connections it put it on; with a malformed pollId it sends nothing
\* and returns 0.
C10_BroadcastReachesSubscribers ==
    [][ (last' # last \/ \E c \in Conns : clients'[c].inbox # clients[c].inbox
                                          /\ Len(clients'[c].inbox) > Len(clients[c].inbox)
                                          /\ clients'[c].inbox[Len(clients'[c].inbox)].type
                                                = "vote_update")
        => LET pollId == last'.pollId
               wellFormed == Len(pollId) = ObjectIdHexLen
                             /\ \A i \in 1..Len(pollId) : pollId[i] \in HexChars
               subscribed == {c \in Conns : clients[c].state = "open"
                                            /\ clients[c].pollId = pollId}
           IN  /\ \A c \in Conns : c \notin gotUpdate(pollId)
                                   => clients'[c] = clients[c]
               /\ wellFormed => gotUpdate(pollId) = subscribed \ last'.failing
               /\ ~wellFormed => gotUpdate(pollId) = {}
               /\ last'.count = Cardinality(gotUpdate(pollId)) ]_vars

\* a step that is a call of broadcastToPoll
broadcastStep ==
    \/ last' # last
    \/ \E c \in Conns :
          clients'[c].inbox
             = Append(clients[c].inbox, Frame("vote_update", last'.pollId))

\* pollId is 24 hexadecimal characters
wellFormed(pollId) ==
    Len(pollId) = ObjectIdHexLen /\ \A i \in 1..Len(pollId) : pollId[i] \in HexChars

\* the open connections whose subscription is pollId
subscribedTo(pollId) ==
    {c \in Conns : clients[c].state = "open" /\ clients[c].pollId = pollId}

\* C11: in a call of broadcastToPoll in which the send to some subscribed
\* connection throws, every other subscribed connection still gets the
\* payload, the connection whose send threw gets nothing, and the value
\* returned counts only the connections that got the payload.
C11_SendFailureIsolated ==
    [][ LET pollId == last'.pollId
            failing == last'.failing
        IN  ( broadcastStep /\ wellFormed(pollId)
              /\ subscribedTo(pollId) \cap failing # {} )
            => /\ \A c \in subscribedTo(pollId) \ failing :
                     clients'[c].inbox
                        = Append(clients[c].inbox, Frame("vote_update", pollId))
               /\ \A c \in subscribedTo(pollId) \cap failing :
                     clients'[c] = clients[c]
               /\ last'.count = Cardinality(subscribedTo(pollId) \ failing) ]_vars

\* C11 witness: c1 and c2 are subscribed to P1, the send to c1 threw, and
\* c2 got the payload, the one delivery counted.
C11_Witness ==
    /\ last.called /\ last.pollId = P1 /\ last.failing = {"c1"}
    /\ last.count = 1
    /\ clients["c1"].state = "open" /\ clients["c1"].pollId = P1
    /\ clients["c1"].inbox = << >>
    /\ clients["c2"].state = "open" /\ clients["c2"].pollId = P1
    /\ clients["c2"].inbox = <<Frame("vote_update", P1)>>

\* C10 witness: a broadcast to P1 has reached the connection subscribed
\* to P1 and not the one subscribed to P2.
C10_Witness ==
    /\ last.called /\ last.pollId = P1 /\ last.count = 1
    /\ clients["c1"].state = "open" /\ clients["c1"].pollId = P1
    /\ clients["c1"].inbox = <<Frame("vote_update", P1)>>
    /\ clients["c2"].state = "open" /\ clients["c2"].pollId = P2
    /\ clients["c2"].inbox = << >>

\* the latest event is message m from connection c
messageFrom(c) == event'.kind = "message" /\ event'.conn = c

\* the characters of id that are hexadecimal digits
RECURSIVE hexOnly(_)
hexOnly(id) ==
    IF id = << >> THEN << >>
    ELSE IF Head(id) \in HexChars THEN <<Head(id)>> \o hexOnly(Tail(id))
    ELSE hexOnly(Tail(id))

\* m is a JSON message of bounded size with a type
parsed(m) == ~m.tooLarge /\ m.json /\ m.type # << >>

\* C12: a connection has one subscription, which changes only when the
\* connection subscribes (to the poll it names), unsubscribes (to none),
\* is opened or is closed; a broadcast is delivered only to open
\* connections whose subscription at that moment is the poll of the
\* broadcast; and a connection that has closed has left the registry with
\* no subscription.
C12_OneSubscription ==
    [][ \A c \in Conns :
          LET m == event'.message
          IN  /\ ( messageFrom(c) /\ parsed(m) /\ m.type = TSubscribe
                   /\ hexOnly(m.pollId) # << >> )
                 => clients'[c].pollId = hexOnly(m.pollId)
              /\ ( messageFrom(c) /\ parsed(m) /\ m.type = TUnsubscribe )
                 => clients'[c].pollId = NoSub
              /\ clients'[c].pollId # clients[c].pollId
                 => \/ messageFrom(c) /\ parsed(m)
                       /\ m.type \in {TSubscribe, TUnsubscribe}
                    \/ clients'[c].state = "none"
              /\ ( broadcastStep
                   /\ clients'[c].inbox
                         = Append(clients[c].inbox,
                                  Frame("vote_update", last'.pollId)) )
                 => clients[c].state = "open" /\ clients[c].pollId = last'.pollId
              /\ clients'[c].state = "none" => clients'[c] = NoClient ]_vars

\* C12 witness: c1, subscribed to P1 at first, has subscribed to P2, and a
\* later broadcast to P1 was delivered to nobody.
C12_Witness ==
    /\ clients["c1"].state = "open" /\ clients["c1"].pollId = P2
    /\ clients["c1"].inbox = << >>
    /\ last.called /\ last.pollId = P1 /\ last.count = 0

\* C13: every inbound message that is oversized, not JSON, without a type,
\* a subscribe without a usable pollId, or of a type other than subscribe,
\* unsubscribe and ping is answered with an error frame to its sender,
\* whose connection stays open.
C13_BadMessageGetsError ==
    [][ \A c \in Conns :
          LET m == event'.message
              malformed == \/ ~parsed(m)
                           \/ m.type = TSubscribe /\ hexOnly(m.pollId) = << >>
              unrecognized == m.type \notin {TSubscribe, TUnsubscribe, TPing}
          IN  ( messageFrom(c) /\ (malformed \/ unrecognized) )
              => /\ clients'[c].inbox
                       = Append(clients[c].inbox, Frame("error", NoSub))
                 /\ clients'[c].state = "open" ]_vars

\* C14: when the heartbeat fires, every registered connection that has not
\* answered the previous ping is terminated, and every open connection
\* that has no unanswered ping stays open; a terminated connection is
\* never open again before it leaves the registry, and a broadcast is
\* delivered to, and counts, open connections only.
C14_HeartbeatTerminatesSilent ==
    [][ \A c \in Conns :
          /\ ( event'.kind = "heartbeat" /\ clients[c].state # "none"
               /\ clients[c].pinged )
             => clients'[c].state = "closing"
          /\ ( event'.kind = "heartbeat" /\ clients[c].state = "open"
               /\ ~clients[c].pinged )
             => clients'[c].state = "open"
          /\ clients[c].state = "closing"
             => clients'[c].state \in {"closing", "none"}
          /\ broadcastStep
             => /\ clients'[c].inbox # clients[c].inbox
                   => clients[c].state = "open"
                /\ last'.count <= Cardinality({d \in Conns :
                                                 clients[d].state = "open"}) ]_vars

\* C14 witness: c2 did not answer its ping and was terminated by the next
\* heartbeat, c1 answered and is open, and a later broadcast to c2's poll
\* counted no delivery.
C14_Witness ==
    /\ clients["c2"].state = "closing" /\ clients["c2"].pinged
    /\ clients["c2"].pollId = P2
    /\ clients["c1"].state = "open" /\ ~clients["c1"].pinged
    /\ clients["c1"].pollId = P1
    /\ last.called /\ last.pollId = P2 /\ last.count = 0

\* the connection was closed by the handshake for its token
rejected(cl) == cl.closeCode = AuthFailureCode

\* C15: a handshake with an invalid token leaves the connection closing
\* with the authentication-failure code, with no frame sent, no user and
\* no subscription, and it stays so until it is gone: it is never open,
\* never subscribed and never sent a frame; a handshake with a valid token
\* opens the connection bound to the token's user, and one with no token
\* opens it with no user; both are sent the connected frame.
C15_BadTokenNeverConnected ==
    [][ \A c \in Conns :
          LET connects == event'.kind = "connection" /\ event'.conn = c
                          /\ clients[c].state = "none"
          IN  /\ ( connects /\ event'.token = "invalid" )
                 => rejected(clients'[c])
              /\ rejected(clients'[c])
                 => /\ clients'[c].state = "closing"
                    /\ clients'[c].inbox = << >>
                    /\ clients'[c].pollId = NoSub
                    /\ clients'[c].userId = ""
              /\ ( connects /\ event'.token = "valid" )
                 => /\ clients'[c].state = "open"
                    /\ clients'[c].userId = TokenUser
                    /\ clients'[c].inbox = <<Frame("connected", NoSub)>>
              /\ ( connects /\ event'.token = "none" )
                 => /\ clients'[c].state = "open"
                    /\ clients'[c].userId = ""
                    /\ clients'[c].inbox = <<Frame("connected", NoSub)>> ]_vars

\* C15 witness: the handshake of c1 carried an invalid token and c1 is
\* closing with the authentication-failure code, while a broadcast to P1
\* has been made.
C15_Witness ==
    /\ rejected(clients["c1"]) /\ clients["c1"].state = "closing"
    /\ clients["c1"].inbox = << >>
    /\ last.called /\ last.pollId = P1 /\ last.count = 0

\* request r leaves the idle state in this step (its read and checks)
starts(r) == life[r].pc = "idle" /\ life'[r].pc # "idle"

\* request r is answered in this step after its save was called
saves(r) == life[r].pc = "save" /\ life'[r].pc = "done"

\* request r is of the creator on a stored poll
byCreator(r) ==
    /\ life'[r].user = Creator
    /\ life'[r].poll \in PollIds
    /\ polls[life'[r].poll].exists

\* the poll is past its expiry at time t
pastExpiry(p, t) == p.expiresAt # NoExpiry /\ t > p.expiresAt

\* the response is a refusal for the state the poll is in
invalidState(res) ==
    /\ res.status = 400
    /\ res.error \in {ErrAlreadyPublished, ErrAlreadyUnpublished,
                      ErrNotExpired, ErrAlreadyArchived}

\* C16: a publish (unpublish) by the creator of a poll that is unpublished
\* (published) succeeds and sets isPublished to true (false); on a poll that
\* is already published (unpublished) it is refused with the invalid-state
\* error and the polls are unchanged.
C16_PublishUnpublish ==
    [][ \A r \in LifeReqs :
          ( life'[r].kind \in {"publish", "unpublish"} /\ byCreator(r) ) =>
             LET q == life'[r]
                 cur == polls[q.poll]
                 target == (q.kind = "publish")
             IN  /\ starts(r) =>
                       /\ polls' = polls
                       /\ IF cur.isPublished = target
                          THEN q.pc = "done" /\ invalidState(q.res)
                          ELSE q.pc = "save"
                 /\ saves(r) =>
                       IF cur.isPublished = target
                       THEN invalidState(q.res) /\ polls' = polls
                       ELSE /\ q.res.status = 200
                            /\ polls'[q.poll].isPublished = target ]_vars

\* C17: an archive by the creator of a poll that is published and past its
\* expiry succeeds and sets isPublished to false; on a poll that is not
\* past its expiry or is unpublished it is refused with the invalid-state
\* error and the polls are unchanged.
C17_ArchiveExpired ==
    [][ \A r \in LifeReqs :
          ( life'[r].kind = "archive" /\ byCreator(r) ) =>
             LET q == life'[r]
                 cur == polls[q.poll]
                 expired == cur.isPublished /\ pastExpiry(cur, now)
             IN  /\ starts(r) =>
                       /\ polls' = polls
                       /\ IF expired THEN q.pc = "save"
                          ELSE q.pc = "done" /\ invalidState(q.res)
                 /\ saves(r) =>
                       IF expired
                       THEN /\ q.res.status = 200
                            /\ ~polls'[q.poll].isPublished
                       ELSE invalidState(q.res) /\ polls' = polls ]_vars

\* C18: an extend by the creator is refused at its checks, leaving the polls
\* unchanged, unless the poll is not past its expiry, newExpiry is in the
\* future and newExpiry is after the poll's expiresAt if it has one; its
\* save succeeds exactly when newExpiry is still in the future, it then sets
\* expiresAt to newExpiry, and newExpiry is after the expiresAt the poll had
\* just before, so that the expiry never moves earlier.
C18_ExtendOnlyLater ==
    [][ \A r \in LifeReqs :
          ( life'[r].kind = "extend" /\ byCreator(r) ) =>
             LET q == life'[r]
                 cur == polls[q.poll]
                 later == cur.expiresAt # NoExpiry
                             => q.newExpiry > cur.expiresAt
                 legal == /\ ~pastExpiry(cur, now)
                          /\ q.newExpiry > now
                          /\ later
             IN  /\ starts(r) =>
                       /\ polls' = polls
                       /\ IF legal THEN q.pc = "save"
                          ELSE q.pc = "done" /\ q.res.status = 400
                 /\ saves(r) =>
                       IF q.newExpiry > now
                       THEN /\ q.res.status = 200
                            /\ polls'[q.poll].expiresAt = q.newExpiry
                            /\ later
                       ELSE q.res.status = 400 /\ polls' = polls ]_vars

\* the polls the sweep is to archive: returned by findExpired at the start
\* of the run and with autoArchive
eligible == {p \in sweep.found : sweep.docs[p].autoArchive}

\* the sweep has run for an admin and has ended
swept == sweep.pc = "done" /\ sweep.res.status # 403

\* C19: when a run of the sweep has ended and no other request has changed
\* a poll, every poll that was published, with expiresAt <= now and
\* autoArchive at the start of the run is unpublished, and every other poll
\* is as it was at the start.
C19_SweepArchivesEligible ==
    ( swept /\ \A r \in LifeReqs : life[r].pc = "idle" ) =>
        \A p \in PollIds :
            IF p \in eligible
            THEN ~polls[p].isPublished
            ELSE polls[p] = sweep.docs[p]

\* C20: when a run of the sweep has ended, the save of every poll it was to
\* archive has been called, whether or not the save of an earlier poll of
\* the batch failed.
C20_SweepFailureIsolated ==
    swept => eligible \subseteq sweep.saved

\* poll p has a vote
hasVotes(p) == \E v \in votes : v.poll = p

\* C21: in every step taken while poll P1 has a vote and after which P1 is
\* still stored, the options of P1 and their texts stay as they are.
C21_OptionsFrozenAfterVote ==
    [][ ( hasVotes(P1) /\ polls'[P1].exists ) =>
           /\ {o \in options' : o.poll = P1} = {o \in options : o.poll = P1}
           /\ \A o \in TextOptions :
                 optionOf(o, P1) => edit'.texts[o] = edit.texts[o] ]_vars

\* the step changes poll P1, the options or the text of an option
changesPoll ==
    \/ polls'[P1] # polls[P1]
    \/ options' # options
    \/ edit'.texts # edit.texts

\* the step is the write of a request made by the creator of P1: the commit
\* of the creator's PUT or DELETE of the poll, or the save of a text update
\* whose caller is the creator
creatorWrites ==
    \/ put.pc = "commit" /\ put.user = Creator /\ put'.pc = "done"
    \/ delPoll.pc = "commit" /\ delPoll'.pc = "done"
    \/ edit.pc = "save" /\ edit.caller = Creator /\ edit'.pc = "done"

\* C22: every step that changes poll P1, its options or their texts is the
\* write of a request of the creator, and a text update by anyone else ends
\* refused, and only a PUT of the poll by the creator reaches its commit.
C22_CreatorOnly ==
    [][ /\ changesPoll => creatorWrites
        /\ ( edit'.pc = "done" /\ edit.pc # "done" /\ edit'.caller # Creator )
              => edit'.res.status \in {401, 403, 404}
        /\ put'.pc = "commit" => put'.user = Creator ]_vars

\* C23: a step leaves every stored vote as it is or removes it together
\* with its poll, and while a poll is not stored no vote and no option of
\* that poll is stored.
C23_VotesKeptUntilCascade ==
    [][ /\ \A v \in votes :
              \/ v \in votes'
              \/ /\ ~polls'[v.poll].exists
                 /\ \A w \in votes' : w.id # v.id
        /\ \A p \in PollIds :
              ~polls'[p].exists =>
                 /\ \A w \in votes' : w.poll # p
                 /\ \A o \in options' : o.poll # p ]_vars

\* the limiter answers a request of key k in this step
limits(k) == hits'[k] # hits[k]

\* milliseconds of the limiter's window
windowMs == VoteWindowSec * 1000

\* the window of key k is open at time t: it has a counter, and less than
\* the window length has passed since the window started
windowOpen(k, t) == hits[k].present /\ t - rl.start[k] < windowMs

\* more than the window length has passed since the window of k started
windowOver(k, t) == hits[k].present /\ t - rl.start[k] > windowMs

\* C24: a request inside the open window of its key raises the counter by
\* one and is allowed exactly when the counter does not exceed the limiter's
\* max; a request made after the window is over is allowed and starts a new
\* window with counter 1; and the fourth request inside one window is
\* answered 429.
C24_WindowCounts ==
    [][ \A k \in LimitKeys :
          limits(k) =>
             /\ windowOpen(k, now) =>
                   /\ hits'[k].count = hits[k].count + 1
                   /\ (rl'.status = 200) <=> (hits'[k].count <= VoteMax)
             /\ windowOver(k, now) =>
                   /\ hits'[k].count = 1
                   /\ rl'.status = 200
             /\ ( windowOpen(k, now) /\ hits'[k].count > 3 )
                   => rl'.status = 429 ]_vars

\* C25: every 429 of the limiter carries as retryAfter the seconds from now
\* to the reset time the store returned, which is more than 0 and at most
\* the window length.
C25_RetryAfterRemaining ==
    rl.status = 429 =>
        /\ rl.retryAfter = rl.resetTime - (now \div 1000)
        /\ 0 < rl.retryAfter
        /\ rl.retryAfter <= VoteWindowSec

\* p is an integer nearest to 100 * count / total
nearest(p, count, total) ==
    /\ 2 * (100 * count - p * total) <= total
    /\ 2 * (p * total - 100 * count) <= total

\* C26: the total reported is the sum of the options' votes; with no votes
\* every percentage is 0, and otherwise the percentage of an option is an
\* integer nearest to 100 times its votes divided by the total; votes split
\* 5/3/2 are reported as 50/30/20 of a total of 10.
C26_PercentageRounded ==
    stats.asked =>
        /\ stats.total = stats.votes[1] + stats.votes[2] + stats.votes[3]
        /\ \A i \in 1..3 :
              IF stats.total = 0 THEN stats.percentage[i] = 0
              ELSE nearest(stats.percentage[i], stats.votes[i], stats.total)
        /\ stats.votes = <<5, 3, 2>>
              => stats.percentage = <<50, 30, 20>> /\ stats.total = 10

\* C26 witness: the stats of a poll whose votes are split 5/3/2, and of a
\* poll where the division leaves a remainder (2 of 3 votes: 67).
C26_Witness ==
    \/ /\ stats.asked /\ stats.votes = <<5, 3, 2>>
       /\ stats.percentage = <<50, 30, 20>>
    \/ /\ stats.asked /\ stats.votes = <<2, 1, 0>>
       /\ stats.percentage = <<67, 33, 0>>

\* C27: at every time, every stored poll has exactly one of the states
\* draft, active and expired; findExpired returns exactly the polls whose
\* status is expired and whose isExpired is true, and findActive returns
\* exactly the polls whose status is active.
C27_DerivationsAgree ==
    \A p \in PollIds :
        polls[p].exists =>
           /\ status(polls[p], now) \in {"draft", "active", "expired"}
           /\ p \in findExpired(now)
                 <=> ( status(polls[p], now) = "expired"
                       /\ isExpired(polls[p], now) )
           /\ p \in findActive(now) <=> status(polls[p], now) = "active"

\* socket i of the client opens in this step
opens(i) ==
    /\ i \in 1..Len(svc.socks)
    /\ svc.socks[i].state = "connecting"
    /\ svc'.socks[i].state = "open"

\* C28: when the socket the service holds opens, on a first connect or
\* after a reconnect, the server holds for it a subscription to the poll
\* the socket's connect() call was made for.
C28_OpenSubscribes ==
    [][ \A i \in 1..MaxSockets :
          ( opens(i) /\ svc.ws = i )
             => svc'.socks[i].sub = svc.socks[i].for ]_vars

\* the sockets of the client that are connecting or open
liveSockets(s) == {i \in 1..Len(s.socks) : live(s.socks[i])}

\* C29: the attempt counter never exceeds MaxReconnectAttempts; the timer
\* of attempt n has a delay of n reconnect intervals; the counter is 0 after
\* a socket opens; onMaxReconnectAttempts is called only at the limit and
\* then no timer is set; a timer that was pending when disconnect() was
\* called creates no socket; and at most one socket is connecting or open.
C29_ReconnectBounded ==
    [][ LET added == Len(svc'.timers) > Len(svc.timers)
            created == Len(svc'.socks) > Len(svc.socks)
        IN  /\ svc'.reconnectAttempts <= MaxReconnectAttempts
            /\ added => svc'.timers[Len(svc'.timers)].delay
                           = ReconnectIntervalMs * svc'.reconnectAttempts
            /\ ( \E i \in 1..MaxSockets : opens(i) )
                  => svc'.reconnectAttempts = 0
            /\ ( svc'.maxReached /\ ~svc.maxReached )
                  => ~added /\ svc.reconnectAttempts = MaxReconnectAttempts
            /\ ( created /\ svc'.socks[Len(svc'.socks)].byTimer )
                  => ~svc'.socks[Len(svc'.socks)].stale
            /\ Cardinality(liveSockets(svc')) <= 1 ]_vars

\* C30: a subscribe message whose pollId, with the characters that are not
\* hexadecimal removed, is a well-formed poll identifier is confirmed and
\* stored; any other subscribe message is answered with an error frame and
\* leaves the connection's subscription as it was; so that the subscription
\* of a connection that was sent a confirmation is a well-formed identifier.
C30_ConfirmedIsWellFormed ==
    [][ \A c \in Conns :
          LET m == event'.message
              id == hexOnly(m.pollId)
          IN  ( messageFrom(c) /\ parsed(m) /\ m.type = TSubscribe ) =>
                 IF wellFormed(id)
                 THEN /\ clients'[c].pollId = id
                      /\ clients'[c].inbox
                            = Append(clients[c].inbox,
                                     Frame("subscription_confirmed", id))
                 ELSE /\ clients'[c].pollId = clients[c].pollId
                      /\ clients'[c].inbox
                            = Append(clients[c].inbox, Frame("error", NoSub))
      ]_vars

====
